---- MODULE Spec2Model ----
(***************************************************************************)
(* State-machine model of the VideoCall component                          *)
(* (src/src/components/VideoCall.tsx): the join effect and its cleanup,    *)
(* the setupTracks effect, the mute toggles, the Leave button and the      *)
(* user-published / user-unpublished handlers, run against a transport     *)
(* client whose asynchronous calls resolve at nondeterministic times.      *)
(*                                                                         *)
(* The component runs on one thread: every action below is one run of      *)
(* component code from an event (or a promise resolution) to the next      *)
(* await.  A React state update is taken to be visible to the next event.  *)
(***************************************************************************)
EXTENDS Naturals, Sequences, FiniteSets

\* ------------------------------------------------------------- bounds
\* Local tracks that can be created in one run of the model.
MaxTracks == 4
\* Transport join calls that can be issued in one run of the model.
MaxJoins == 2
\* Remote participants (uids 1..NumUids).
NumUids == 2
\* user-published handlers that can be suspended on subscribe at once.
MaxPendingSubs == 2
\* Runs of setupTracks that can be suspended at once.
MaxSyncs == 2

Uids == 1 .. NumUids
Kinds == {"audio", "video"}
\* Device ids offered by each select once the lists are loaded.
Devices == {1, 2}
\* '' (no selection) and null (no track).
NoDevice == 0
NoTrack == 0

VARIABLES
  connectionState,   \* client.connectionState
  inits,             \* init() calls suspended at `await joinPromise`: the aborted flag of each one's AbortController
  leavePending,      \* a client.leave() call the transport has not processed yet
  published,         \* local tracks the transport holds as published
  remotePub,         \* per remote uid, the media kinds the transport reports as published
  subs,              \* user-published handlers suspended at `await client.subscribe`
  handlers,          \* number of times the two client.on(...) handlers were registered
  mounted,           \* the component is mounted
  joins,             \* client.join calls issued so far
  propsJoined,       \* the last client.join call was made with the current channelName and userName
  hasJoined,
  users,
  devicesLoaded,
  hasCameras,
  hasMicrophones,
  selectedCameraId,
  selectedMicId,
  localAudioTrack,
  localVideoTrack,
  isAudioEnabled,
  isVideoEnabled,
  tracks,            \* every track object created so far, by id
  cleanupTracks,     \* localAudioTrack / localVideoTrack as captured by the join effect's cleanup closure
  syncs,             \* runs of setupTracks, each with its closure and its position
  toggles,           \* runs of toggleAudio / toggleVideo suspended at setEnabled
  notified           \* what the last step told the user or the caller: toasts, console.warn, onLeave

vars == <<connectionState, inits, leavePending, published, remotePub, subs,
          handlers, mounted, joins, propsJoined, hasJoined, users,
          devicesLoaded, hasCameras, hasMicrophones, selectedCameraId,
          selectedMicId, localAudioTrack, localVideoTrack, isAudioEnabled,
          isVideoEnabled, tracks, cleanupTracks, syncs, toggles, notified>>

transportVars == <<connectionState, inits, leavePending, published, remotePub, joins, propsJoined>>
registryVars == <<subs, users>>
deviceVars == <<devicesLoaded, hasCameras, hasMicrophones, selectedCameraId, selectedMicId>>
trackVars == <<localAudioTrack, localVideoTrack, tracks, syncs>>
toggleVars == <<isAudioEnabled, isVideoEnabled, toggles>>

\* ------------------------------------------------------------ helpers
NoRemote == [u \in Uids |-> {}]

\* track.close(): closing is terminal; closing a closed track or null does nothing.
CloseTracks(ts, ids) ==
  [t \in DOMAIN ts |-> IF t \in ids THEN [ts[t] EXCEPT !.open = FALSE] ELSE ts[t]]

OpenTracks(kind) == {t \in DOMAIN tracks : tracks[t].kind = kind /\ tracks[t].open}

\* [a, b].filter(Boolean)
NonNull(a, b) == {a, b} \ {NoTrack}

Remove(seq, i) == [j \in 1 .. (Len(seq) - 1) |-> IF j < i THEN seq[j] ELSE seq[j + 1]]

\* ------------------------------------------------- transport (client)
\* client.leave() called in connection state cs: nothing to do when already
\* disconnected, otherwise the request is pending until the transport acts.
LeaveCall(cs, pending) == pending \/ cs # "DISCONNECTED"

\* ----------------------------------------------- join effect: init()
\* init() without its guard.
InitNeverRejected(cs) == FALSE

\* The guard of init(): true when the join request is dropped.
InitRejected(cs) == cs # "DISCONNECTED"

\* init() without the re-check after the await.
NoRecheckAfterJoin(aborted) == FALSE

\* The re-check of the AbortController after `await joinPromise`.
AbortedAfterJoin(aborted) == aborted

\* The guard of setupTracks and of the effect that calls it.
SetupGuard(joined, cs, cam, mic) ==
  joined /\ cs = "CONNECTED" /\ cam # NoDevice /\ mic # NoDevice

\* A setupTracks that leaves the video track alone when the microphone changed.
SyncClosureAudioOnly(trigger, a, v) ==
  LET old == IF trigger = "mic" THEN {a} \ {NoTrack} ELSE NonNull(a, v) IN
  [pc |-> "unpublish", trigger |-> trigger, oldA |-> a, oldV |-> v,
   newA |-> NoTrack, newV |-> NoTrack, closed |-> old, unpub |-> old,
   wasPublished |-> a # NoTrack /\ v # NoTrack /\ {a, v} \subseteq published]

\* setupTracks up to `await client.unpublish(...)`: the closure it runs with.
SyncClosure(trigger, a, v) ==
  [pc |-> "unpublish", trigger |-> trigger, oldA |-> a, oldV |-> v,
   newA |-> NoTrack, newV |-> NoTrack,
   closed |-> NonNull(a, v), unpub |-> NonNull(a, v),
   wasPublished |-> a # NoTrack /\ v # NoTrack /\ {a, v} \subseteq published]

\* The setupTracks effect, run after a render in which one of its
\* dependencies changed: starts a run of setupTracks when the guards pass.
SetupTracksEffect(trigger, joined, cs, cam, mic) ==
  LET start == SetupGuard(joined, cs, cam, mic) IN
  /\ start => Len(syncs) < MaxSyncs
  /\ syncs' = IF start
              THEN Append(syncs, SyncClosure(trigger, localAudioTrack, localVideoTrack))
              ELSE syncs
  /\ tracks' = IF start
               THEN CloseTracks(tracks, SyncClosure(trigger, localAudioTrack, localVideoTrack).closed)
               ELSE tracks

Init ==
  \* The state after the first render's effects: loadDevices() is suspended
  \* at getCameras(), init() has called client.join and is suspended at
  \* `await joinPromise`.
  /\ connectionState = "CONNECTING"
  /\ inits = <<FALSE>>
  /\ leavePending = FALSE
  /\ published = {}
  /\ remotePub = NoRemote
  /\ subs = [p \in Uids \X Kinds |-> 0]
  /\ handlers = 0
  /\ mounted = TRUE
  /\ joins = 1
  /\ propsJoined = TRUE
  /\ hasJoined = FALSE
  /\ users = <<>>
  /\ devicesLoaded = FALSE
  /\ hasCameras = FALSE
  /\ hasMicrophones = FALSE
  /\ selectedCameraId = NoDevice
  /\ selectedMicId = NoDevice
  /\ localAudioTrack = NoTrack
  /\ localVideoTrack = NoTrack
  /\ isAudioEnabled = TRUE
  /\ isVideoEnabled = TRUE
  /\ tracks = <<>>
  /\ cleanupTracks = <<NoTrack, NoTrack>>
  /\ syncs = <<>>
  /\ toggles = [k \in Kinds |-> [busy |-> FALSE, track |-> NoTrack, want |-> FALSE]]
  /\ notified = {}

\* `await joinPromise` resolves: the transport is connected, and init()
\* resumes at the re-check of the abort signal.
JoinResolved ==
  /\ inits # <<>>
  /\ connectionState = "CONNECTING"
  /\ connectionState' = "CONNECTED"
  /\ inits' = Tail(inits)
  /\ IF AbortedAfterJoin(Head(inits))
     THEN /\ UNCHANGED <<hasJoined, handlers, tracks, syncs>>
          /\ notified' = {}
     ELSE /\ hasJoined' = TRUE
          /\ handlers' = handlers + 1
          \* the setupTracks effect runs only when hasJoined changed
          /\ IF hasJoined
             THEN UNCHANGED <<tracks, syncs>>
             ELSE SetupTracksEffect("joined", TRUE, "CONNECTED", selectedCameraId, selectedMicId)
          /\ notified' = {"toast.success"}
  /\ UNCHANGED <<leavePending, published, remotePub, joins, propsJoined, mounted, 
                 localAudioTrack, localVideoTrack, cleanupTracks>>
  /\ UNCHANGED <<registryVars, deviceVars, toggleVars>>

\* A catch block of init() that swallows every error.
CatchSilent(code) == {}

\* The catch block of init(): every error but OPERATION_ABORTED is shown and
\* ends the call through onLeave.
CatchNotified(code) ==
  IF code # "OPERATION_ABORTED" THEN {"toast.error", "onLeave"} ELSE {}

\* `await joinPromise` rejects with a transport error: the catch block runs.
JoinFailed ==
  /\ inits # <<>>
  /\ connectionState = "CONNECTING"
  /\ connectionState' = "DISCONNECTED"
  /\ inits' = Tail(inits)
  /\ notified' = CatchNotified("CAN_NOT_GET_GATEWAY_SERVER")
  /\ UNCHANGED <<leavePending, published, remotePub, joins, propsJoined, mounted, hasJoined, handlers,
                 cleanupTracks>>
  /\ UNCHANGED <<registryVars, deviceVars, trackVars, toggleVars>>

\* The cleanup of the join effect: abort, then cleanup() up to `await client.leave()`.
\* Gives the tracks, the suspended init() calls and the pending leave it leaves behind.
CleanupCloses == {cleanupTracks[1], cleanupTracks[2]}
CleanupInits == [i \in DOMAIN inits |-> TRUE]

\* channelName or userName changes: the cleanup of the old effect runs, then
\* the effect runs again with a new AbortController and calls init().
ChangeProps ==
  /\ mounted
  /\ tracks' = CloseTracks(tracks, CleanupCloses)
  /\ leavePending' = LeaveCall(connectionState, leavePending)
  /\ cleanupTracks' = <<localAudioTrack, localVideoTrack>>
  /\ IF InitRejected(connectionState)
     THEN /\ inits' = CleanupInits
          /\ UNCHANGED <<connectionState, joins>>
          /\ propsJoined' = FALSE
          /\ notified' = {"console.warn"}
     ELSE /\ joins < MaxJoins
          /\ inits' = Append(CleanupInits, FALSE)
          /\ connectionState' = "CONNECTING"
          /\ joins' = joins + 1
          /\ propsJoined' = TRUE
          /\ notified' = {}
  /\ UNCHANGED <<published, remotePub, mounted, hasJoined, handlers,
                 localAudioTrack, localVideoTrack, syncs>>
  /\ UNCHANGED <<registryVars, deviceVars, toggleVars>>

\* The component unmounts: the cleanup of the join effect runs.
Unmount ==
  /\ mounted
  /\ mounted' = FALSE
  /\ inits' = CleanupInits
  /\ tracks' = CloseTracks(tracks, CleanupCloses)
  /\ leavePending' = LeaveCall(connectionState, leavePending)
  /\ notified' = {}
  /\ UNCHANGED <<connectionState, published, remotePub, joins, propsJoined, hasJoined,
                 handlers, localAudioTrack, localVideoTrack, cleanupTracks, syncs>>
  /\ UNCHANGED <<registryVars, deviceVars, toggleVars>>

\* The Leave button.
HandleLeave ==
  /\ mounted
  /\ tracks' = CloseTracks(tracks, {localAudioTrack, localVideoTrack})
  /\ leavePending' = LeaveCall(connectionState, leavePending)
  /\ notified' = {"onLeave", "toast.success"}
  /\ UNCHANGED <<connectionState, inits, published, remotePub, joins, propsJoined, mounted, hasJoined,
                 handlers, localAudioTrack, localVideoTrack, cleanupTracks, syncs>>
  /\ UNCHANGED <<registryVars, deviceVars, toggleVars>>

\* The tracks closed before the close() of the `kind` track throws: the audio
\* track is closed first, then the video track.
ClosedBeforeThrow(kind, a, v) == IF kind = "audio" THEN {} ELSE {a}

\* The Leave button when the close() of the `kind` track throws: handleLeave
\* has no try block, so the rest of it does not run.
HandleLeaveCloseThrows(kind) ==
  /\ mounted
  /\ LET t == IF kind = "audio" THEN localAudioTrack ELSE localVideoTrack IN
       t # NoTrack
  /\ tracks' = CloseTracks(tracks, ClosedBeforeThrow(kind, localAudioTrack, localVideoTrack))
  /\ notified' = {"uncaught"}
  /\ UNCHANGED <<transportVars, mounted, hasJoined, handlers, localAudioTrack,
                 localVideoTrack, cleanupTracks, syncs>>
  /\ UNCHANGED <<registryVars, deviceVars, toggleVars>>

\* The component unmounts and the close() of the captured `kind` track
\* throws: the catch of cleanup() logs it, `await client.leave()` is skipped.
UnmountCloseThrows(kind) ==
  /\ mounted
  /\ cleanupTracks[IF kind = "audio" THEN 1 ELSE 2] # NoTrack
  /\ mounted' = FALSE
  /\ inits' = CleanupInits
  /\ tracks' = CloseTracks(tracks, ClosedBeforeThrow(kind, cleanupTracks[1], cleanupTracks[2]))
  /\ notified' = {"cleanup.warn"}
  /\ UNCHANGED <<connectionState, leavePending, published, remotePub, joins, propsJoined, hasJoined,
                 handlers, localAudioTrack, localVideoTrack, cleanupTracks, syncs>>
  /\ UNCHANGED <<registryVars, deviceVars, toggleVars>>

\* channelName or userName changes and the close() of the captured `kind`
\* track throws in the cleanup; the effect then runs again as in ChangeProps.
ChangePropsCloseThrows(kind) ==
  /\ mounted
  /\ cleanupTracks[IF kind = "audio" THEN 1 ELSE 2] # NoTrack
  /\ tracks' = CloseTracks(tracks, ClosedBeforeThrow(kind, cleanupTracks[1], cleanupTracks[2]))
  /\ cleanupTracks' = <<localAudioTrack, localVideoTrack>>
  /\ IF InitRejected(connectionState)
     THEN /\ inits' = CleanupInits
          /\ UNCHANGED <<connectionState, joins>>
          /\ propsJoined' = FALSE
          /\ notified' = {"cleanup.warn", "console.warn"}
     ELSE /\ joins < MaxJoins
          /\ inits' = Append(CleanupInits, FALSE)
          /\ connectionState' = "CONNECTING"
          /\ joins' = joins + 1
          /\ propsJoined' = TRUE
          /\ notified' = {"cleanup.warn"}
  /\ UNCHANGED <<leavePending, published, remotePub, mounted, hasJoined, handlers,
                 localAudioTrack, localVideoTrack, syncs>>
  /\ UNCHANGED <<registryVars, deviceVars, toggleVars>>

\* The transport acts on a pending client.leave().
LeaveResolved ==
  /\ leavePending
  /\ leavePending' = FALSE
  /\ connectionState # "CONNECTING"
  /\ connectionState' = "DISCONNECTED"
  /\ published' = {}
  /\ remotePub' = NoRemote
  /\ notified' = {}
  /\ UNCHANGED <<inits, joins, propsJoined, mounted, hasJoined, handlers, cleanupTracks>>
  /\ UNCHANGED <<registryVars, deviceVars, trackVars, toggleVars>>

\* The transport acts on a client.leave() issued while the join is in flight
\* and aborts the join: joinPromise rejects with OPERATION_ABORTED, which the
\* catch block of init() ignores.
LeaveAbortsJoin ==
  /\ leavePending
  /\ connectionState = "CONNECTING"
  /\ inits # <<>>
  /\ leavePending' = FALSE
  /\ connectionState' = "DISCONNECTED"
  /\ inits' = Tail(inits)
  /\ notified' = CatchNotified("OPERATION_ABORTED")
  /\ UNCHANGED <<published, remotePub, joins, propsJoined, mounted, hasJoined, handlers,
                 cleanupTracks>>
  /\ UNCHANGED <<registryVars, deviceVars, trackVars, toggleVars>>

\* The transport completes a client.leave() issued while the join is in
\* flight without stopping the join, which resolves later.
LeaveMissesJoin ==
  /\ leavePending
  /\ connectionState = "CONNECTING"
  /\ leavePending' = FALSE
  /\ notified' = {}
  /\ UNCHANGED <<connectionState, inits, published, remotePub, joins, propsJoined, mounted, 
                 hasJoined, handlers, cleanupTracks>>
  /\ UNCHANGED <<registryVars, deviceVars, trackVars, toggleVars>>

\* The transport loses the connection (network loss).
TransportDrop ==
  /\ connectionState = "CONNECTED"
  /\ connectionState' = "DISCONNECTED"
  /\ published' = {}
  /\ remotePub' = NoRemote
  /\ notified' = {}
  /\ UNCHANGED <<inits, leavePending, joins, propsJoined, mounted, hasJoined, handlers,
                 cleanupTracks>>
  /\ UNCHANGED <<registryVars, deviceVars, trackVars, toggleVars>>

\* ------------------------------------------------------------ devices
\* loadDevices() resumes with the device lists: the first camera and the
\* first microphone, when there is one, become the selection.
LoadDevices(cams, mics) ==
  LET cam == IF cams THEN 1 ELSE NoDevice
      mic == IF mics THEN 1 ELSE NoDevice IN
  /\ mounted
  /\ ~devicesLoaded
  /\ devicesLoaded' = TRUE
  /\ hasCameras' = cams
  /\ hasMicrophones' = mics
  /\ selectedCameraId' = cam
  /\ selectedMicId' = mic
  /\ IF cams \/ mics
     THEN SetupTracksEffect("devices", hasJoined, connectionState, cam, mic)
     ELSE UNCHANGED <<tracks, syncs>>
  /\ notified' = {}
  /\ UNCHANGED <<localAudioTrack, localVideoTrack, cleanupTracks, mounted, 
                 hasJoined, handlers>>
  /\ UNCHANGED <<transportVars, registryVars, toggleVars>>

\* The camera select changes.
SelectCamera(d) ==
  /\ mounted
  /\ hasCameras
  /\ d # selectedCameraId
  /\ selectedCameraId' = d
  /\ SetupTracksEffect("camera", hasJoined, connectionState, d, selectedMicId)
  /\ notified' = {}
  /\ UNCHANGED <<devicesLoaded, hasCameras, hasMicrophones, selectedMicId, localAudioTrack,
                 localVideoTrack, cleanupTracks, mounted, hasJoined, handlers>>
  /\ UNCHANGED <<transportVars, registryVars, toggleVars>>

\* The microphone select changes.
SelectMic(d) ==
  /\ mounted
  /\ hasMicrophones
  /\ d # selectedMicId
  /\ selectedMicId' = d
  /\ SetupTracksEffect("mic", hasJoined, connectionState, selectedCameraId, d)
  /\ notified' = {}
  /\ UNCHANGED <<devicesLoaded, hasCameras, hasMicrophones, selectedCameraId, localAudioTrack,
                 localVideoTrack, cleanupTracks, mounted, hasJoined, handlers>>
  /\ UNCHANGED <<transportVars, registryVars, toggleVars>>

\* A select changes while the call is up and the close() of the current
\* `kind` track throws at the start of setupTracks: its catch shows the error
\* and nothing else of the run happens.
SelectCloseThrows(sel, d, kind) ==
  /\ mounted
  /\ IF sel = "camera"
     THEN /\ hasCameras /\ d # selectedCameraId
          /\ selectedCameraId' = d /\ UNCHANGED selectedMicId
     ELSE /\ hasMicrophones /\ d # selectedMicId
          /\ selectedMicId' = d /\ UNCHANGED selectedCameraId
  /\ SetupGuard(hasJoined, connectionState, selectedCameraId', selectedMicId')
  /\ LET t == IF kind = "audio" THEN localAudioTrack ELSE localVideoTrack IN
       t # NoTrack
  /\ tracks' = CloseTracks(tracks, ClosedBeforeThrow(kind, localAudioTrack, localVideoTrack))
  /\ notified' = {"toast.error"}
  /\ UNCHANGED <<devicesLoaded, hasCameras, hasMicrophones, localAudioTrack,
                 localVideoTrack, cleanupTracks, mounted, hasJoined, handlers, syncs>>
  /\ UNCHANGED <<transportVars, registryVars, toggleVars>>

\* -------------------------------------------------------- setupTracks
NewTrack(kind) == [kind |-> kind, open |-> TRUE, enabled |-> TRUE]

\* What a run of setupTracks leaves unchanged at every step.
SyncFrame ==
  /\ UNCHANGED <<connectionState, inits, leavePending, remotePub, joins, propsJoined, mounted, 
                 hasJoined, handlers, cleanupTracks>>
  /\ UNCHANGED <<registryVars, deviceVars, toggleVars>>

\* `await client.unpublish(...)` resolves: setupTracks goes on to create the audio track.
UnpublishResolved(i) ==
  /\ syncs[i].pc = "unpublish"
  /\ published' = published \ syncs[i].unpub
  /\ syncs' = [syncs EXCEPT ![i].pc = "createAudio"]
  /\ notified' = {}
  /\ UNCHANGED <<localAudioTrack, localVideoTrack, tracks>>
  /\ SyncFrame

\* createMicrophoneAudioTrack resolves: setupTracks goes on to create the video track.
AudioCreated(i) ==
  /\ syncs[i].pc = "createAudio"
  /\ Len(tracks) < MaxTracks
  /\ tracks' = Append(tracks, NewTrack("audio"))
  /\ syncs' = [syncs EXCEPT ![i].pc = "createVideo", ![i].newA = Len(tracks) + 1]
  /\ notified' = {}
  /\ UNCHANGED <<localAudioTrack, localVideoTrack, published>>
  /\ SyncFrame

\* createCameraVideoTrack resolves: both tracks are stored and published.
VideoCreated(i) ==
  /\ syncs[i].pc = "createVideo"
  /\ Len(tracks) < MaxTracks
  /\ tracks' = Append(tracks, NewTrack("video"))
  /\ syncs' = [syncs EXCEPT ![i].pc = "publish", ![i].newV = Len(tracks) + 1]
  /\ localAudioTrack' = IF mounted THEN syncs[i].newA ELSE localAudioTrack
  /\ localVideoTrack' = IF mounted THEN Len(tracks) + 1 ELSE localVideoTrack
  /\ notified' = {}
  /\ UNCHANGED published
  /\ SyncFrame

\* `await client.publish(...)` resolves: setupTracks returns.
PublishResolved(i) ==
  /\ syncs[i].pc = "publish"
  /\ connectionState = "CONNECTED"
  /\ published' = published \cup {syncs[i].newA, syncs[i].newV}
  /\ syncs' = Remove(syncs, i)
  /\ notified' = {}
  /\ UNCHANGED <<localAudioTrack, localVideoTrack, tracks>>
  /\ SyncFrame

\* The call setupTracks is suspended at rejects: the catch block runs.
SyncFailed(i) ==
  /\ syncs' = Remove(syncs, i)
  /\ notified' = {"toast.error"}
  /\ UNCHANGED <<localAudioTrack, localVideoTrack, tracks, published>>
  /\ SyncFrame

\* ------------------------------------------- toggleAudio / toggleVideo
LocalTrack(kind) == IF kind = "audio" THEN localAudioTrack ELSE localVideoTrack
EnabledFlag(kind) == IF kind = "audio" THEN isAudioEnabled ELSE isVideoEnabled
Idle == [busy |-> FALSE, track |-> NoTrack, want |-> FALSE]

\* The run of a toggle up to `await track.setEnabled(...)`: none without a track.
ToggleCall(kind, track, flag) ==
  IF track = NoTrack THEN Idle ELSE [busy |-> TRUE, track |-> track, want |-> ~flag]

\* The Mute / Turn Video Off button (pressed again only once the previous
\* press of the same button has resumed).
ToggleStart(kind) ==
  /\ mounted
  /\ ~toggles[kind].busy
  /\ toggles' = [toggles EXCEPT ![kind] = ToggleCall(kind, LocalTrack(kind), EnabledFlag(kind))]
  /\ notified' = {}
  /\ UNCHANGED <<isAudioEnabled, isVideoEnabled, mounted, hasJoined, handlers,
                 cleanupTracks>>
  /\ UNCHANGED <<transportVars, registryVars, deviceVars, trackVars>>

\* A toggle that unpublishes the track it mutes.
ToggleUnpublishesOnMute(kind, track, want) == IF want THEN published ELSE published \ {track}

\* What the resumed toggle does to the transport's published tracks: nothing.
TogglePublished(kind, track, want) == published

\* `await track.setEnabled(...)` resolves: the flag takes the value sent to the track.
ToggleDone(kind) ==
  /\ toggles[kind].busy
  /\ toggles' = [toggles EXCEPT ![kind] = Idle]
  /\ tracks' = [tracks EXCEPT ![toggles[kind].track].enabled = toggles[kind].want]
  /\ published' = TogglePublished(kind, toggles[kind].track, toggles[kind].want)
  /\ isAudioEnabled' = IF kind = "audio" /\ mounted THEN toggles[kind].want ELSE isAudioEnabled
  /\ isVideoEnabled' = IF kind = "video" /\ mounted THEN toggles[kind].want ELSE isVideoEnabled
  /\ notified' = {}
  /\ UNCHANGED <<connectionState, inits, leavePending, remotePub, joins, propsJoined>>
  /\ UNCHANGED <<localAudioTrack, localVideoTrack, syncs, mounted, hasJoined,
                 handlers, cleanupTracks>>
  /\ UNCHANGED <<registryVars, deviceVars>>

\* --------------------------- user-published / user-unpublished handlers
PendingSubs == LET Sum[S \in SUBSET (Uids \X Kinds)] ==
                     IF S = {} THEN 0
                     ELSE LET p == CHOOSE q \in S : TRUE IN subs[p] + Sum[S \ {p}]
               IN Sum[Uids \X Kinds]

\* A handler that appends without looking for the uid.
AddUserNoDedup(prev, uid) == Append(prev, uid)

\* setUsers(prev => exists ? prev : [...prev, user])
AddUser(prev, uid) ==
  IF \E j \in DOMAIN prev : prev[j] = uid THEN prev ELSE Append(prev, uid)

\* setUsers(prev => prev.filter(u => u.uid !== user.uid))
RemoveUser(prev, uid, kind) == SelectSeq(prev, LAMBDA u : u # uid)

RegistryFrame ==
  /\ UNCHANGED <<connectionState, inits, leavePending, published, joins, propsJoined>>
  /\ UNCHANGED <<mounted, hasJoined, handlers, cleanupTracks>>
  /\ UNCHANGED <<deviceVars, trackVars, toggleVars>>

\* A remote user publishes a kind: every registered user-published handler
\* calls client.subscribe and is suspended there.
RemotePublished(uid, kind) ==
  /\ connectionState = "CONNECTED"
  /\ kind \notin remotePub[uid]
  /\ PendingSubs + handlers <= MaxPendingSubs
  /\ remotePub' = [remotePub EXCEPT ![uid] = @ \cup {kind}]
  /\ subs' = [subs EXCEPT ![<<uid, kind>>] = @ + handlers]
  /\ notified' = {}
  /\ UNCHANGED users
  /\ RegistryFrame

\* The transport emits user-published again for a kind the remote user
\* already publishes: the handlers run as for the first event.
RemoteRepublished(uid, kind) ==
  /\ connectionState = "CONNECTED"
  /\ kind \in remotePub[uid]
  /\ handlers > 0
  /\ PendingSubs + handlers <= MaxPendingSubs
  /\ subs' = [subs EXCEPT ![<<uid, kind>>] = @ + handlers]
  /\ notified' = {}
  /\ UNCHANGED <<users, remotePub>>
  /\ RegistryFrame

\* `await client.subscribe(user, mediaType)` resolves: the handler adds the user.
SubscribeResolved(uid, kind) ==
  /\ subs[<<uid, kind>>] > 0
  /\ connectionState = "CONNECTED"
  /\ kind \in remotePub[uid]
  /\ subs' = [subs EXCEPT ![<<uid, kind>>] = @ - 1]
  /\ users' = IF mounted THEN AddUser(users, uid) ELSE users
  /\ notified' = {}
  /\ UNCHANGED remotePub
  /\ RegistryFrame

\* `await client.subscribe(user, mediaType)` rejects: the handler throws.
SubscribeFailed(uid, kind) ==
  /\ subs[<<uid, kind>>] > 0
  /\ subs' = [subs EXCEPT ![<<uid, kind>>] = @ - 1]
  /\ notified' = {}
  /\ UNCHANGED <<users, remotePub>>
  /\ RegistryFrame

\* A remote user stops publishing a kind: every registered user-unpublished
\* handler filters the user out.
RemoteUnpublished(uid, kind) ==
  /\ connectionState = "CONNECTED"
  /\ kind \in remotePub[uid]
  /\ remotePub' = [remotePub EXCEPT ![uid] = @ \ {kind}]
  /\ users' = IF mounted /\ handlers > 0 THEN RemoveUser(users, uid, kind) ELSE users
  /\ notified' = {}
  /\ UNCHANGED subs
  /\ RegistryFrame

\* ---------------------------------------------------------------- spec
SessionStep ==
  \/ JoinResolved
  \/ JoinFailed
  \/ ChangeProps
  \/ Unmount
  \/ HandleLeave
  \/ LeaveResolved
  \/ LeaveAbortsJoin
  \/ LeaveMissesJoin
  \/ TransportDrop

DeviceStep ==
  \/ \E cams \in BOOLEAN, mics \in BOOLEAN : LoadDevices(cams, mics)
  \/ \E d \in Devices : SelectCamera(d)
  \/ \E d \in Devices : SelectMic(d)
  \/ \E i \in DOMAIN syncs : UnpublishResolved(i)
  \/ \E i \in DOMAIN syncs : AudioCreated(i)
  \/ \E i \in DOMAIN syncs : VideoCreated(i)
  \/ \E i \in DOMAIN syncs : PublishResolved(i)
  \/ \E i \in DOMAIN syncs : SyncFailed(i)

ToggleStep ==
  \/ \E k \in Kinds : ToggleStart(k)
  \/ \E k \in Kinds : ToggleDone(k)

RegistryStep ==
  \/ \E u \in Uids, k \in Kinds : RemotePublished(u, k)
  \/ \E u \in Uids, k \in Kinds : RemoteRepublished(u, k)
  \/ \E u \in Uids, k \in Kinds : SubscribeResolved(u, k)
  \/ \E u \in Uids, k \in Kinds : SubscribeFailed(u, k)
  \/ \E u \in Uids, k \in Kinds : RemoteUnpublished(u, k)

\* The steps in which a close() of a local track throws.
CloseThrowsStep ==
  \/ \E k \in Kinds : HandleLeaveCloseThrows(k)
  \/ \E k \in Kinds : UnmountCloseThrows(k)
  \/ \E k \in Kinds : ChangePropsCloseThrows(k)
  \/ \E sel \in {"camera", "mic"}, d \in Devices, k \in Kinds : SelectCloseThrows(sel, d, k)

\* The steps of one run of setupTracks after its start.
SyncStep ==
  \/ \E i \in DOMAIN syncs : UnpublishResolved(i)
  \/ \E i \in DOMAIN syncs : AudioCreated(i)
  \/ \E i \in DOMAIN syncs : VideoCreated(i)
  \/ \E i \in DOMAIN syncs : PublishResolved(i)
  \/ \E i \in DOMAIN syncs : SyncFailed(i)

\* The whole component.  Its state space is the product of the local track
\* set, the mute toggles and the participant registry, which share only the
\* session; it is explored in the parts below.
Next == SessionStep \/ DeviceStep \/ ToggleStep \/ RegistryStep \/ CloseThrowsStep

Spec == Init /\ [][Next]_vars

\* The component while no remote participant publishes and no mute button is pressed.
NextTracks == SessionStep \/ DeviceStep

SpecTracks == Init /\ [][NextTracks]_vars

\* The component while loadDevices() has not resolved: no device is
\* selected, so setupTracks never starts and there is no local track.
NextRegistry == SessionStep \/ RegistryStep

SpecRegistry == Init /\ [][NextRegistry]_vars

\* The component with the devices chosen by loadDevices() and local tracks
\* whose close() may throw in a teardown: no remote participant, no mute
\* button, no change of device.
NextTeardown ==
  \/ SessionStep
  \/ \E cams \in BOOLEAN, mics \in BOOLEAN : LoadDevices(cams, mics)
  \/ SyncStep
  \/ \E k \in Kinds : HandleLeaveCloseThrows(k)
  \/ \E k \in Kinds : UnmountCloseThrows(k)
  \/ \E k \in Kinds : ChangePropsCloseThrows(k)

SpecTeardown == Init /\ [][NextTeardown]_vars

\* One call, from the join to the Leave button or the unmount, with the mute
\* buttons and remote participants: no change of channel or of device.
NextToggles ==
  \/ JoinResolved
  \/ HandleLeave
  \/ Unmount
  \/ LeaveResolved
  \/ \E cams \in BOOLEAN, mics \in BOOLEAN : LoadDevices(cams, mics)
  \/ \E i \in DOMAIN syncs : UnpublishResolved(i)
  \/ \E i \in DOMAIN syncs : AudioCreated(i)
  \/ \E i \in DOMAIN syncs : VideoCreated(i)
  \/ \E i \in DOMAIN syncs : PublishResolved(i)
  \/ \E i \in DOMAIN syncs : SyncFailed(i)
  \/ ToggleStep
  \/ RegistryStep

SpecToggles == Init /\ [][NextToggles]_vars

\* One call that stays up, with the selects and the mute buttons: no leave, no
\* change of channel, no remote participant.
NextMute ==
  \/ JoinResolved
  \/ \E cams \in BOOLEAN, mics \in BOOLEAN : LoadDevices(cams, mics)
  \/ \E d \in Devices : SelectCamera(d)
  \/ \E d \in Devices : SelectMic(d)
  \/ SyncStep
  \/ ToggleStep

SpecMute == Init /\ [][NextMute]_vars

\* A call that the caller keeps up over changes of channel, on a transport
\* that accepts every join and does not drop the connection: no Leave button,
\* no unmount, no remote participant.  The transport answers every pending
\* join and leave.
NextRejoin ==
  \/ JoinResolved
  \/ ChangeProps
  \/ LeaveResolved
  \/ LeaveAbortsJoin
  \/ LeaveMissesJoin
  \/ \E cams \in BOOLEAN, mics \in BOOLEAN : LoadDevices(cams, mics)
  \/ SyncStep

TransportAnswers ==
  /\ WF_vars(JoinResolved)
  /\ WF_vars(LeaveResolved)
  /\ WF_vars(LeaveAbortsJoin \/ LeaveMissesJoin)

SpecRejoin == Init /\ [][NextRejoin]_vars /\ TransportAnswers

\* ============================================================== claims
InUsers(list, uid) == \E j \in DOMAIN list : list[j] = uid

\* A step in which a suspended init() resumes with the join resolved.
JoinResolves == connectionState = "CONNECTING" /\ connectionState' = "CONNECTED" /\ inits # <<>>

\* A step in which the transport completes a client.leave().
LeaveCompletes == leavePending /\ ~leavePending'

\* C1: when the cleanup has signalled the abort while the join was pending and
\* the join then resolves, the resumed init() neither sets hasJoined nor
\* registers the user-published / user-unpublished handlers.
C1_CancelledJoinCommitsNothing ==
  [][(JoinResolves /\ Head(inits)) => (hasJoined' = hasJoined /\ handlers' = handlers)]_vars

\* A join has resolved after its abort: the transport is connected, the flag is
\* not set and no handler is registered.
C1_Witness == connectionState = "CONNECTED" /\ ~hasJoined /\ handlers = 0 /\ inits = <<>>

\* C2: when a join resolves after its abort, a leave is issued to the transport
\* (one is pending after the step), so that the transport does not stay connected.
C2_LeaveIssuedOnCancelledResolution ==
  [][(JoinResolves /\ Head(inits)) => leavePending']_vars

\* C3: a join is issued to the transport only from DISCONNECTED, a join request
\* met in another state is dropped with a warning and changes nothing, and at
\* most one join is in flight or connected at any time.
C3_JoinOnlyWhenDisconnected ==
  /\ [][/\ joins' # joins => connectionState = "DISCONNECTED"
        /\ notified' = {"console.warn"} =>
             /\ connectionState # "DISCONNECTED"
             /\ UNCHANGED <<connectionState, joins, hasJoined, handlers, users, subs,
                            published, remotePub>>
             /\ Len(inits') = Len(inits)]_vars
  /\ [](Len(inits) <= 1 /\ (inits # <<>> <=> connectionState = "CONNECTING"))

\* A join request was dropped while the session was connected.
C3_Witness == notified = {"console.warn"} /\ connectionState = "CONNECTED" /\ hasJoined

\* C4: at most one local audio track and at most one local video track are open.
C4_AtMostOneOpenTrackPerKind == \A k \in Kinds : Cardinality(OpenTracks(k)) <= 1

\* C5: the participant list never holds two records with the same uid.
C5_UidsUnique == \A i, j \in DOMAIN users : i # j => users[i] # users[j]

\* Both published events of one uid (audio and video) were handled and the uid
\* is in the list.
C5_Witness ==
  \E u \in Uids : InUsers(users, u) /\ remotePub[u] = Kinds /\ PendingSubs = 0 /\ handlers > 0

\* C6: immediately after a leave completes, the participant list of the
\* mounted component is empty.
C6_RegistryEmptyAfterLeave ==
  [][(LeaveCompletes /\ connectionState' = "DISCONNECTED" /\ mounted) => users' = <<>>]_vars

\* C7: an unpublished event for one kind of a participant that still publishes
\* the other kind keeps the participant in the list.
C7_UnpublishKeepsParticipantWithMedia ==
  [][\A u \in Uids :
       (remotePub'[u] # {} /\ remotePub'[u] # remotePub[u] /\ remotePub'[u] \subseteq remotePub[u]
        /\ InUsers(users, u))
       => InUsers(users', u)]_vars

\* C8: a toggle makes no publish or unpublish call, creates and closes no track,
\* and leaves the participant list alone; without a track of the kind no toggle
\* gets in flight and the enabled flags keep their values.
C8_ToggleFrame ==
  /\ [][/\ toggles' # toggles =>
             /\ UNCHANGED <<published, syncs, users, subs, remotePub, localAudioTrack,
                            localVideoTrack, connectionState, leavePending>>
             /\ Len(tracks') = Len(tracks)
             /\ \A t \in DOMAIN tracks : tracks'[t].open = tracks[t].open
        /\ \A k \in Kinds :
             (IF k = "audio" THEN isAudioEnabled' # isAudioEnabled
                             ELSE isVideoEnabled' # isVideoEnabled)
             => toggles[k].busy /\ toggles[k].track # NoTrack]_vars
  /\ [](\A k \in Kinds : toggles[k].busy => toggles[k].track # NoTrack)

\* The published audio track was muted while a participant is listed.
C8_Witness ==
  /\ ~isAudioEnabled /\ localAudioTrack \in published /\ ~tracks[localAudioTrack].enabled
  /\ users # <<>>

\* A step in which the run i of setupTracks returns from its publish call.
SyncCompletes(i) ==
  /\ i \in DOMAIN syncs
  /\ syncs[i].pc = "publish"
  /\ syncs' = Remove(syncs, i)
  /\ published' # published

\* C9 as stated: a run of setupTracks started by a new microphone, with both
\* tracks published, closes, unpublishes, creates and publishes the audio track
\* only: the video track is the same open object before and after.
C9_MicChangeLeavesVideoAlone ==
  [][\A i \in DOMAIN syncs :
       (SyncCompletes(i) /\ syncs[i].trigger = "mic" /\ syncs[i].wasPublished)
       => /\ syncs[i].closed = {syncs[i].oldA}
          /\ syncs[i].unpub = {syncs[i].oldA}
          /\ tracks'[syncs[i].oldV].open]_vars

\* C9 as amended: such a run closes and unpublishes both old tracks, creates a
\* new audio and a new video track, and publishes both.
C9_MicChangeReplacesBothTracks ==
  [][\A i \in DOMAIN syncs :
       (SyncCompletes(i) /\ syncs[i].trigger = "mic" /\ syncs[i].wasPublished)
       => LET s == syncs[i] IN
          /\ s.closed = {s.oldA, s.oldV} /\ Cardinality(s.closed) = 2
          /\ s.unpub = {s.oldA, s.oldV}
          /\ ~tracks'[s.oldA].open /\ ~tracks'[s.oldV].open
          /\ {s.newA, s.newV} \cap {s.oldA, s.oldV, NoTrack} = {}
          /\ tracks'[s.newA].kind = "audio" /\ tracks'[s.newV].kind = "video"
          /\ {s.newA, s.newV} \subseteq published'
          /\ published' \cap {s.oldA, s.oldV} = {}]_vars

\* A run started by a new microphone with both tracks published has created
\* its tracks and is about to return from publish.
C9_Witness ==
  \E i \in DOMAIN syncs :
    /\ syncs[i].trigger = "mic" /\ syncs[i].wasPublished /\ syncs[i].pc = "publish"
    /\ connectionState = "CONNECTED" /\ Len(syncs) = 1

\* C10: when a leave completes, the connected flag of the mounted component is cleared.
C10_LeaveClearsConnectedFlag ==
  [][(LeaveCompletes /\ mounted) => ~hasJoined']_vars

\* A step in which a suspended init() resumes with the join rejected by the
\* transport (not by a leave).
JoinFails ==
  /\ connectionState = "CONNECTING" /\ connectionState' = "DISCONNECTED"
  /\ inits # <<>> /\ leavePending' = leavePending

\* C11: when the join fails and the abort was not signalled, the transport is
\* disconnected, the flag and the handlers are as they were, the error is shown
\* and onLeave is called, and no further join is issued.
C11_FailedJoinEndsAttempt ==
  [][(JoinFails /\ ~Head(inits)) =>
       /\ hasJoined' = hasJoined /\ handlers' = handlers
       /\ notified' = {"toast.error", "onLeave"}
       /\ joins' = joins /\ inits' = <<>>]_vars

\* The first join has failed without an abort.
C11_Witness ==
  /\ notified = {"toast.error", "onLeave"} /\ connectionState = "DISCONNECTED"
  /\ ~hasJoined /\ handlers = 0 /\ mounted /\ joins = 1

\* A step of the Leave button or of the effect cleanup in which a close() threw.
TeardownCloseThrows == notified' \cap {"uncaught", "cleanup.warn"} # {}

\* C12: when a close() throws in the Leave button or in the cleanup of the
\* join effect, client.leave() is still issued.
C12_LeaveIssuedWhenCloseThrows ==
  [][TeardownCloseThrows => leavePending' = LeaveCall(connectionState, leavePending)]_vars

\* C13: while a client.leave() is in progress no participant is added to the
\* list, whatever user-published handler resumes from its subscribe.
C13_NoInsertAfterLeaveBegan ==
  [][leavePending => \A u \in Uids : InUsers(users', u) => InUsers(users, u)]_vars

\* C14: two runs of setupTracks in flight never both hold an open track of
\* the same kind that they created.
C14_NoTwoRunsCreateSameKind ==
  \A i, j \in DOMAIN syncs :
    i # j =>
      /\ ~(/\ syncs[i].newA # NoTrack /\ syncs[j].newA # NoTrack
           /\ tracks[syncs[i].newA].open /\ tracks[syncs[j].newA].open)
      /\ ~(/\ syncs[i].newV # NoTrack /\ syncs[j].newV # NoTrack
           /\ tracks[syncs[i].newV].open /\ tracks[syncs[j].newV].open)

\* C15: once the unmount has begun the teardown, a run of setupTracks that was
\* suspended at that moment (no run starts after the unmount) creates, stores
\* and publishes no track.
C15_NoTrackWorkAfterLeaveBegan ==
  [][~mounted =>
       /\ Len(tracks') = Len(tracks)
       /\ localAudioTrack' = localAudioTrack /\ localVideoTrack' = localVideoTrack
       /\ published' \subseteq published]_vars

\* C16: the unmount closes the local tracks of the component.
C16_UnmountClosesLocalTracks ==
  [][(mounted /\ ~mounted') =>
       \A t \in {localAudioTrack, localVideoTrack} \ {NoTrack} : ~tracks'[t].open]_vars

\* C17: a user-published event for a kind that the remote user already
\* publishes, received while that user is in the list and no subscribe for the
\* pair is pending, issues no client.subscribe call for the pair.
C17_DuplicatePublishedIsNoOp ==
  [][\A u \in Uids, k \in Kinds :
       (/\ k \in remotePub[u] /\ InUsers(users, u) /\ subs[<<u, k>>] = 0
        /\ remotePub' = remotePub)
       => subs'[<<u, k>>] = 0]_vars

\* C18: when the transport drops the connection by itself while the call is
\* connected, the connected flag is cleared and an error is shown.
C18_DropEndsSessionWithError ==
  [][(/\ connectionState = "CONNECTED" /\ connectionState' = "DISCONNECTED"
      /\ ~leavePending /\ mounted)
     => ~hasJoined' /\ notified' # {}]_vars

\* A step in which run i of setupTracks ends in its catch block.
SyncFails(i) == notified' = {"toast.error"} /\ syncs' = Remove(syncs, i)

\* C19: when a run of setupTracks fails, the session stays as it was and none
\* of the tracks the run closed or created is left published.
C19_FailedSyncLeavesNothingPublished ==
  [][\A i \in DOMAIN syncs :
       SyncFails(i) =>
         /\ connectionState' = connectionState /\ hasJoined' = hasJoined
         /\ published' \cap {syncs[i].oldA, syncs[i].oldV,
                             syncs[i].newA, syncs[i].newV} = {}]_vars

\* C20: while the component is mounted, for each kind with a local track and no
\* toggle in flight, the enabled flag shown by the button equals the enabled
\* state of the track.
C20_FlagMatchesTrack ==
  mounted =>
    \A k \in Kinds :
      (LocalTrack(k) # NoTrack /\ ~toggles[k].busy) =>
        EnabledFlag(k) = tracks[LocalTrack(k)].enabled

\* C21: once channelName or userName has changed while the transport was
\* connecting or connected, so that the last join is not for the current
\* props, the component eventually joins with the current props and the
\* transport is connected on them.
C21_ChannelChangeEventuallyJoins ==
  ~propsJoined ~> (propsJoined /\ connectionState = "CONNECTED")

====
